---- MODULE Spec2Model ----
(***************************************************************************)
(* Model of controllers/factory/psp/psp.go: the reconciliation of the      *)
(* PodSecurityPolicy, ClusterRole, ClusterRoleBinding and ServiceAccount   *)
(* that belong to one CRD object, against an object store reached through  *)
(* get / list / create / update.                                           *)
(***************************************************************************)
EXTENDS Integers, Sequences, FiniteSets, TLC

(* ---- bounds ---------------------------------------------------------- *)
\* number of writes other actors make to the store in one behaviour
MaxExternal == 1
\* the count of successive successful calls of one entry point stops here
MaxStreak == 3

(* ---- values ---------------------------------------------------------- *)
FinalizerName == "apps.victoriametrics.com/finalizer"
OtherFinalizer == "kubernetes.io/other"

Keys == {"team"}
Values == {"a", "b"}
\* map[string]string values: functions from a subset of Keys to Values
Maps == UNION {[S -> Values] : S \in SUBSET Keys}

NoObject == [name |-> ""]
Kinds == {"psp", "clusterrole", "clusterrolebinding", "sa"}
NameSpaces == {"ns1"}

\* The CRDObject interface: the values its six accessors return.  The
\* first object manages its own policy, the second refers to a shared one.
CRDMaps == {m \in Maps : \A k \in DOMAIN m : m[k] = "b"}
CRDObject ==
    {[PrefixedName |-> "app1", GetServiceAccountName |-> t[1], GetPSPName |-> t[2],
      GetNSName |-> "ns1", Labels |-> l, Annotations |-> a] :
        t \in {<<"app1", "app1">>, <<"sa1", "shared">>}, l \in CRDMaps, a \in CRDMaps}

\* Store keys: cluster-scoped kinds are addressed by name, the ServiceAccount
\* by namespace and name.
StoreKeys(kind) ==
    IF kind = "sa" THEN NameSpaces \X {"app1", "sa1"}
    ELSE IF kind = "psp" THEN {""} \X {"app1", "shared"}
    ELSE {""} \X {"app1"}

\* labels.Merge(labels1, labels2): a new map holding labels1, then labels2
\* written over it.
Merge(labels1, labels2) ==
    [k \in DOMAIN labels1 \cup DOMAIN labels2 |->
        IF k \in DOMAIN labels2 THEN labels2[k] ELSE labels1[k]]

\* v1beta1.MergeFinalizers(src, finalizer): src's finalizers, with finalizer
\* appended when it is missing.
MergeFinalizers(src, finalizer) ==
    IF \E i \in 1..Len(src.finalizers) : src.finalizers[i] = finalizer
    THEN src.finalizers
    ELSE Append(src.finalizers, finalizer)

(* ---- object builders ------------------------------------------------- *)
\* Faulty variant: the labels of the CRD object are left out.
buildSANoLabels(cr) ==
    [name |-> cr.GetServiceAccountName,
     namespace |-> cr.GetNSName,
     labels |-> <<>>,
     annotations |-> cr.Annotations,
     finalizers |-> <<FinalizerName>>,
     spec |-> [secrets |-> <<>>]]

buildSA(cr) ==
    [name |-> cr.GetServiceAccountName,
     namespace |-> cr.GetNSName,
     labels |-> cr.Labels,
     annotations |-> cr.Annotations,
     finalizers |-> <<FinalizerName>>,
     spec |-> [secrets |-> <<>>]]

\* Faulty variant: the rule names the policy by the qualified name.
buildClusterRoleForPSPQualifiedName(cr) ==
    [name |-> cr.PrefixedName,
     namespace |-> cr.GetNSName,
     labels |-> cr.Labels,
     annotations |-> cr.Annotations,
     finalizers |-> <<FinalizerName>>,
     spec |-> [rules |-> <<[resources |-> <<"podsecuritypolicies">>,
                            verbs |-> <<"use">>,
                            apiGroups |-> <<"policy">>,
                            resourceNames |-> <<cr.PrefixedName>>]>>]]

buildClusterRoleForPSP(cr) ==
    [name |-> cr.PrefixedName,
     namespace |-> cr.GetNSName,
     labels |-> cr.Labels,
     annotations |-> cr.Annotations,
     finalizers |-> <<FinalizerName>>,
     spec |-> [rules |-> <<[resources |-> <<"podsecuritypolicies">>,
                            verbs |-> <<"use">>,
                            apiGroups |-> <<"policy">>,
                            resourceNames |-> <<cr.GetPSPName>>]>>]]

buildClusterRoleBinding(cr) ==
    [name |-> cr.PrefixedName,
     namespace |-> cr.GetNSName,
     labels |-> cr.Labels,
     annotations |-> cr.Annotations,
     finalizers |-> <<FinalizerName>>,
     spec |-> [subjects |-> <<[kind |-> "ServiceAccount",
                               name |-> cr.GetServiceAccountName,
                               namespace |-> cr.GetNSName]>>,
               roleRef |-> [apiGroup |-> "rbac.authorization.k8s.io",
                            name |-> cr.PrefixedName,
                            kind |-> "ClusterRole"]]]

PSPSpec ==
    [readOnlyRootFilesystem |-> FALSE,
     volumes |-> <<"persistentVolumeClaim", "secret", "emptyDir", "configMap",
                   "projected", "downwardAPI", "nfs">>,
     allowPrivilegeEscalation |-> FALSE,
     hostNetwork |-> TRUE,
     runAsUser |-> "RunAsAny",
     seLinux |-> "RunAsAny",
     supplementalGroups |-> "RunAsAny",
     fsGroup |-> "RunAsAny",
     hostPID |-> FALSE,
     hostIPC |-> FALSE,
     requiredDropCapabilities |-> <<"ALL">>]

BuildPSP(cr) ==
    [name |-> cr.GetPSPName,
     namespace |-> cr.GetNSName,
     labels |-> cr.Labels,
     annotations |-> cr.Annotations,
     finalizers |-> <<FinalizerName>>,
     spec |-> PSPSpec]


(* ---- the object store ------------------------------------------------ *)
ObjKey(kind, obj) ==
    IF kind = "sa" THEN <<obj.namespace, obj.name>> ELSE <<"", obj.name>>

EmptyStore == [kind \in Kinds |-> [key \in StoreKeys(kind) |-> NoObject]]

\* Faulty variant: the callback keeps an object whatever its name.
ListClusterWideObjectsAnyName(st, kind, name) ==
    LET items == {st[kind][key] : key \in DOMAIN st[kind]} \ {NoObject}
    IN IF items = {} THEN NoObject ELSE CHOOSE i \in items : TRUE

\* k8stools.ListClusterWideObjects with the callback of the ensure steps:
\* the scan over all objects of the kind keeps the one whose name matches;
\* without a match the result stays the zero object (Name == "").
ListClusterWideObjects(st, kind, name) ==
    LET items == {st[kind][key] : key \in DOMAIN st[kind]} \ {NoObject}
        hits == {i \in items : i.name = name}
    IN IF hits = {} THEN NoObject ELSE CHOOSE i \in hits : TRUE

\* rclient.Get by namespace and name; NoObject stands for the NotFound error.
Get(st, kind, key) ==
    IF key \in DOMAIN st[kind] THEN st[kind][key] ELSE NoObject

\* rclient.Create / rclient.Update: the object is stored under its key.
Put(st, kind, obj) ==
    [st EXCEPT ![kind] = [key \in DOMAIN st[kind] \cup {ObjKey(kind, obj)} |->
                            IF key = ObjKey(kind, obj) THEN obj ELSE st[kind][key]]]

\* A store call as it appears in the log of one reconciliation call.
Op(verb, kind, name, ok, old) ==
    [op |-> verb, kind |-> kind, name |-> name, ok |-> ok, old |-> old]

Nil == <<>>
Failures == {"none", "lookup", "write"}
\* The failures of the three steps of one call: a failing step ends the call,
\* so at most one step meets a failure.
FailureRuns ==
    {fails \in [1..3 -> Failures] : Cardinality({i \in 1..3 : fails[i] # "none"}) <= 1}
Result(st, ops, err) == [store |-> st, ops |-> ops, err |-> err]

\* return rclient.Create(ctx, obj) / return rclient.Update(ctx, obj)
Write(st, verb, kind, obj, old, fail, ops) ==
    IF fail = "write"
    THEN Result(st, Append(ops, Op(verb, kind, obj.name, FALSE, old)), <<verb, "store error">>)
    ELSE Result(Put(st, kind, obj), Append(ops, Op(verb, kind, obj.name, TRUE, old)), Nil)

(* ---- the ensure steps ------------------------------------------------ *)
\* Each step takes the store, the CRD object and the store failure met in
\* this step (none, the lookup, the write) and yields the store after the
\* step, the store calls issued and the error returned.

\* Faulty variant: the labels are merged the other way round.
updatedSAExistingLabels(newSA, existSA) ==
    [newSA EXCEPT
       !.finalizers = MergeFinalizers(existSA, FinalizerName),
       !.annotations = Merge(newSA.annotations, existSA.annotations),
       !.labels = Merge(newSA.labels, existSA.labels),
       !.spec = [secrets |-> existSA.spec.secrets]]

\* Faulty variant: the finalizer is appended without looking for it.
updatedSAAppendFinalizer(newSA, existSA) ==
    [newSA EXCEPT
       !.finalizers = Append(existSA.finalizers, FinalizerName),
       !.annotations = Merge(newSA.annotations, existSA.annotations),
       !.labels = Merge(existSA.labels, newSA.labels),
       !.spec = [secrets |-> existSA.spec.secrets]]

\* Faulty variant: the secret references of the existing object are not
\* carried over.
updatedSADropSecrets(newSA, existSA) ==
    [newSA EXCEPT
       !.finalizers = MergeFinalizers(existSA, FinalizerName),
       !.annotations = Merge(newSA.annotations, existSA.annotations),
       !.labels = Merge(existSA.labels, newSA.labels)]

\* The object written over an existing ServiceAccount.
updatedSA(newSA, existSA) ==
    [newSA EXCEPT
       !.finalizers = MergeFinalizers(existSA, FinalizerName),
       !.annotations = Merge(newSA.annotations, existSA.annotations),
       !.labels = Merge(existSA.labels, newSA.labels),
       !.spec = [secrets |-> existSA.spec.secrets]]

\* Faulty variant: every error of the lookup is taken for "not found".
CreateServiceAccountForCRDAnyErrorCreates(st, cr, fail) ==
    LET newSA == buildSA(cr)
        existSA == Get(st, "sa", <<cr.GetNSName, cr.GetServiceAccountName>>)
        get == Op("get", "sa", cr.GetServiceAccountName, fail # "lookup", NoObject)
    IN IF fail = "lookup" \/ existSA = NoObject
       THEN Write(st, "create", "sa", newSA, NoObject, fail, <<get>>)
       ELSE Write(st, "update", "sa", updatedSA(newSA, existSA), existSA, fail, <<get>>)

CreateServiceAccountForCRD(st, cr, fail) ==
    LET newSA == buildSA(cr)
        existSA == Get(st, "sa", <<cr.GetNSName, cr.GetServiceAccountName>>)
        get == Op("get", "sa", cr.GetServiceAccountName, fail # "lookup", NoObject)
    IN IF fail = "lookup"
       THEN Result(st, <<get>>, <<"cannot get ServiceAccount", "store error">>)
       ELSE IF existSA = NoObject
       THEN Write(st, "create", "sa", newSA, NoObject, fail, <<get>>)
       ELSE Write(st, "update", "sa", updatedSA(newSA, existSA), existSA, fail, <<get>>)

\* Faulty variant: every policy found is taken for ours.
isOurPSPAlways(cr) == TRUE

\* "check if its ours": the policy is updated only under this condition.
isOurPSP(cr) == cr.GetPSPName = cr.PrefixedName

\* Faulty variant: the annotations are merged with the annotations of the
\* existing policy.
updatedPSPExistingAnnotations(defaultPSP, existPSP) ==
    [defaultPSP EXCEPT
       !.annotations = Merge(defaultPSP.annotations, existPSP.annotations),
       !.labels = Merge(existPSP.labels, defaultPSP.labels),
       !.finalizers = MergeFinalizers(existPSP, FinalizerName)]

\* Faulty variant: the security settings of the existing policy are kept.
updatedPSPKeepSpec(defaultPSP, existPSP) ==
    [defaultPSP EXCEPT
       !.annotations = Merge(defaultPSP.annotations, existPSP.labels),
       !.labels = Merge(existPSP.labels, defaultPSP.labels),
       !.finalizers = MergeFinalizers(existPSP, FinalizerName),
       !.spec = existPSP.spec]

\* The object written over an existing PodSecurityPolicy.
updatedPSP(defaultPSP, existPSP) ==
    [defaultPSP EXCEPT
       !.annotations = Merge(defaultPSP.annotations, existPSP.labels),
       !.labels = Merge(existPSP.labels, defaultPSP.labels),
       !.finalizers = MergeFinalizers(existPSP, FinalizerName)]

\* Faulty variant: the ownership check comes before the create as well.
ensurePSPExistsGuardFirst(st, cr, fail) ==
    LET defaultPSP == BuildPSP(cr)
        existPSP == ListClusterWideObjects(st, "psp", defaultPSP.name)
        list == Op("list", "psp", defaultPSP.name, fail # "lookup", NoObject)
    IN IF fail = "lookup"
       THEN Result(st, <<list>>, <<"list", "store error">>)
       ELSE IF ~isOurPSP(cr)
       THEN Result(st, <<list>>, Nil)
       ELSE IF existPSP.name = ""
       THEN Write(st, "create", "psp", defaultPSP, NoObject, fail, <<list>>)
       ELSE Write(st, "update", "psp", updatedPSP(defaultPSP, existPSP), existPSP,
                  fail, <<list>>)

ensurePSPExists(st, cr, fail) ==
    LET defaultPSP == BuildPSP(cr)
        existPSP == ListClusterWideObjects(st, "psp", defaultPSP.name)
        list == Op("list", "psp", defaultPSP.name, fail # "lookup", NoObject)
    IN IF fail = "lookup"
       THEN Result(st, <<list>>, <<"list", "store error">>)
       ELSE IF existPSP.name = ""
       THEN Write(st, "create", "psp", defaultPSP, NoObject, fail, <<list>>)
       ELSE IF ~isOurPSP(cr)
       THEN Result(st, <<list>>, Nil)
       ELSE Write(st, "update", "psp", updatedPSP(defaultPSP, existPSP), existPSP,
                  fail, <<list>>)

\* Faulty variant: the finalizers of the existing object are not merged in.
updatedClusterRoleOwnFinalizers(clusterRole, existsClusterRole) ==
    [clusterRole EXCEPT
       !.annotations = Merge(clusterRole.annotations, existsClusterRole.annotations),
       !.labels = Merge(existsClusterRole.labels, clusterRole.labels)]

\* The object written over an existing ClusterRole.
updatedClusterRole(clusterRole, existsClusterRole) ==
    [clusterRole EXCEPT
       !.annotations = Merge(clusterRole.annotations, existsClusterRole.annotations),
       !.labels = Merge(existsClusterRole.labels, clusterRole.labels),
       !.finalizers = MergeFinalizers(existsClusterRole, FinalizerName)]

\* Faulty variant: no update is issued when the merged role is the stored one.
ensureClusterRoleExistsSkipEqual(st, cr, fail) ==
    LET clusterRole == buildClusterRoleForPSP(cr)
        existsClusterRole == ListClusterWideObjects(st, "clusterrole", clusterRole.name)
        list == Op("list", "clusterrole", clusterRole.name, fail # "lookup", NoObject)
    IN IF fail = "lookup"
       THEN Result(st, <<list>>, <<"list", "store error">>)
       ELSE IF existsClusterRole.name = ""
       THEN Write(st, "create", "clusterrole", clusterRole, NoObject, fail, <<list>>)
       ELSE IF updatedClusterRole(clusterRole, existsClusterRole) = existsClusterRole
       THEN Result(st, <<list>>, Nil)
       ELSE Write(st, "update", "clusterrole",
                  updatedClusterRole(clusterRole, existsClusterRole),
                  existsClusterRole, fail, <<list>>)

ensureClusterRoleExists(st, cr, fail) ==
    LET clusterRole == buildClusterRoleForPSP(cr)
        existsClusterRole == ListClusterWideObjects(st, "clusterrole", clusterRole.name)
        list == Op("list", "clusterrole", clusterRole.name, fail # "lookup", NoObject)
    IN IF fail = "lookup"
       THEN Result(st, <<list>>, <<"list", "store error">>)
       ELSE IF existsClusterRole.name = ""
       THEN Write(st, "create", "clusterrole", clusterRole, NoObject, fail, <<list>>)
       ELSE Write(st, "update", "clusterrole",
                  updatedClusterRole(clusterRole, existsClusterRole),
                  existsClusterRole, fail, <<list>>)

\* Faulty variant: the finalizer is appended without looking for it.
updatedClusterRoleBindingAppendFinalizer(clusterRoleBinding, existsClusterRoleBinding) ==
    [clusterRoleBinding EXCEPT
       !.labels = Merge(existsClusterRoleBinding.labels, clusterRoleBinding.labels),
       !.annotations = Merge(clusterRoleBinding.annotations,
                             existsClusterRoleBinding.annotations),
       !.finalizers = Append(existsClusterRoleBinding.finalizers, FinalizerName)]

\* The object written over an existing ClusterRoleBinding.
updatedClusterRoleBinding(clusterRoleBinding, existsClusterRoleBinding) ==
    [clusterRoleBinding EXCEPT
       !.labels = Merge(existsClusterRoleBinding.labels, clusterRoleBinding.labels),
       !.annotations = Merge(clusterRoleBinding.annotations,
                             existsClusterRoleBinding.annotations),
       !.finalizers = MergeFinalizers(existsClusterRoleBinding, FinalizerName)]

ensureClusterRoleBindingExists(st, cr, fail) ==
    LET clusterRoleBinding == buildClusterRoleBinding(cr)
        existsClusterRoleBinding ==
            ListClusterWideObjects(st, "clusterrolebinding", clusterRoleBinding.name)
        list == Op("list", "clusterrolebinding", clusterRoleBinding.name,
                   fail # "lookup", NoObject)
    IN IF fail = "lookup"
       THEN Result(st, <<list>>, <<"list", "store error">>)
       ELSE IF existsClusterRoleBinding.name = ""
       THEN Write(st, "create", "clusterrolebinding", clusterRoleBinding, NoObject,
                  fail, <<list>>)
       ELSE Write(st, "update", "clusterrolebinding",
                  updatedClusterRoleBinding(clusterRoleBinding, existsClusterRoleBinding),
                  existsClusterRoleBinding, fail, <<list>>)

\* Faulty variant: a failing step undoes the writes of the steps before it.
CreateOrUpdateServiceAccountWithPSPRollback(st, cr, fails) ==
    LET r1 == ensurePSPExists(st, cr, fails[1])
        r2 == ensureClusterRoleExists(r1.store, cr, fails[2])
        r3 == ensureClusterRoleBindingExists(r2.store, cr, fails[3])
    IN IF r1.err # Nil
       THEN Result(st, r1.ops, <<"failed check policy">> \o r1.err)
       ELSE IF r2.err # Nil
       THEN Result(st, r1.ops \o r2.ops, <<"failed check clusterrole">> \o r2.err)
       ELSE IF r3.err # Nil
       THEN Result(st, r1.ops \o r2.ops \o r3.ops,
                   <<"failed check clusterrolebinding">> \o r3.err)
       ELSE Result(r3.store, r1.ops \o r2.ops \o r3.ops, Nil)

\* Faulty variant: the error of the role step is not returned at once, the
\* role binding step still runs.
CreateOrUpdateServiceAccountWithPSPLateReturn(st, cr, fails) ==
    LET r1 == ensurePSPExists(st, cr, fails[1])
        r2 == ensureClusterRoleExists(r1.store, cr, fails[2])
        r3 == ensureClusterRoleBindingExists(r2.store, cr, fails[3])
    IN IF r1.err # Nil
       THEN Result(r1.store, r1.ops, <<"failed check policy">> \o r1.err)
       ELSE IF r2.err # Nil
       THEN Result(r3.store, r1.ops \o r2.ops \o r3.ops,
                   <<"failed check clusterrole">> \o r2.err)
       ELSE IF r3.err # Nil
       THEN Result(r3.store, r1.ops \o r2.ops \o r3.ops,
                   <<"failed check clusterrolebinding">> \o r3.err)
       ELSE Result(r3.store, r1.ops \o r2.ops \o r3.ops, Nil)

\* fails[i] is the store failure met in step i.  A step that fails ends the
\* call; the calls of the steps before it stay in the log.
CreateOrUpdateServiceAccountWithPSP(st, cr, fails) ==
    LET r1 == ensurePSPExists(st, cr, fails[1])
        r2 == ensureClusterRoleExists(r1.store, cr, fails[2])
        r3 == ensureClusterRoleBindingExists(r2.store, cr, fails[3])
    IN IF r1.err # Nil
       THEN Result(r1.store, r1.ops, <<"failed check policy">> \o r1.err)
       ELSE IF r2.err # Nil
       THEN Result(r2.store, r1.ops \o r2.ops, <<"failed check clusterrole">> \o r2.err)
       ELSE IF r3.err # Nil
       THEN Result(r3.store, r1.ops \o r2.ops \o r3.ops,
                   <<"failed check clusterrolebinding">> \o r3.err)
       ELSE Result(r3.store, r1.ops \o r2.ops \o r3.ops, Nil)

(* ---- state ----------------------------------------------------------- *)
VARIABLES
    cr,       \* the CRD object that is reconciled
    store,    \* the objects in the store, by kind and key
    last,     \* the last step: entry point, store calls issued, error returned,
              \* the store before it, and how many successful calls of this
              \* entry point it ends with no other step in between
    external, \* number of writes by other actors so far
    running   \* the calls that run side by side, each with its CRD object, the
              \* step it is in, the object its lookup found and its writes

vars == <<cr, store, last, external, running>>

\* Objects as other actors write them.
OtherMaps == {m \in Maps : \A k \in DOMAIN m : m[k] = "a"}
OtherSpec(kind) ==
    IF kind = "psp" THEN [PSPSpec EXCEPT !.allowPrivilegeEscalation = TRUE]
    ELSE IF kind = "clusterrole" THEN [rules |-> <<>>]
    ELSE IF kind = "clusterrolebinding"
    THEN [subjects |-> <<>>,
          roleRef |-> [apiGroup |-> "rbac.authorization.k8s.io", name |-> "other",
                       kind |-> "ClusterRole"]]
    ELSE [secrets |-> <<"token-2", "token-1">>]
OtherMeta ==
    [labels : OtherMaps, annotations : OtherMaps,
     finalizers : {<<>>, <<OtherFinalizer>>}]
PlainMeta ==
    {[labels |-> [k \in Keys |-> "a"], annotations |-> <<>>,
      finalizers |-> <<OtherFinalizer>>]}

Init ==
    /\ cr \in CRDObject
    /\ store = EmptyStore
    /\ last = [call |-> "none", ops |-> <<>>, err |-> Nil, before |-> EmptyStore,
               streak |-> 0]
    /\ external = 0
    /\ running = <<>>

Streak(call, err) ==
    IF err # Nil THEN 0
    ELSE IF last.call = call /\ last.streak < MaxStreak THEN last.streak + 1
    ELSE IF last.call = call THEN MaxStreak
    ELSE 1

CallCreateOrUpdateServiceAccountWithPSP(failures) ==
    /\ \E fails \in failures :
          LET r == CreateOrUpdateServiceAccountWithPSP(store, cr, fails)
          IN /\ store' = r.store
             /\ last' = [call |-> "CreateOrUpdateServiceAccountWithPSP", ops |-> r.ops,
                         err |-> r.err, before |-> store,
                         streak |-> Streak("CreateOrUpdateServiceAccountWithPSP", r.err)]
    /\ UNCHANGED <<cr, external, running>>

CallCreateServiceAccountForCRD(failures) ==
    /\ \E fail \in failures :
          LET r == CreateServiceAccountForCRD(store, cr, fail)
          IN /\ store' = r.store
             /\ last' = [call |-> "CreateServiceAccountForCRD", ops |-> r.ops,
                         err |-> r.err, before |-> store,
                         streak |-> Streak("CreateServiceAccountForCRD", r.err)]
    /\ UNCHANGED <<cr, external, running>>

\* Another actor creates or replaces one object.
ExternalWrite(metas) ==
    /\ external < MaxExternal
    /\ \E kind \in Kinds, m \in metas :
        \E key \in StoreKeys(kind) :
          store' = Put(store, kind,
                       [name |-> key[2], namespace |-> key[1], labels |-> m.labels,
                        annotations |-> m.annotations, finalizers |-> m.finalizers,
                        spec |-> OtherSpec(kind)])
    /\ last' = [call |-> "external", ops |-> <<>>, err |-> Nil, before |-> store,
                streak |-> 0]
    /\ external' = external + 1
    /\ UNCHANGED <<cr, running>>

\* The store answers every call (a lookup may still find nothing).
Next ==
    \/ CallCreateOrUpdateServiceAccountWithPSP({[i \in 1..3 |-> "none"]})
    \/ CallCreateServiceAccountForCRD({"none"})
    \/ ExternalWrite(OtherMeta)

Spec == Init /\ [][Next]_vars

\* The store may fail any lookup or write.
NextFaulty ==
    \/ CallCreateOrUpdateServiceAccountWithPSP(FailureRuns)
    \/ CallCreateServiceAccountForCRD(Failures)
    \/ ExternalWrite(PlainMeta)

SpecFaulty == Init /\ [][NextFaulty]_vars

(* ---- two calls side by side ------------------------------------------ *)
\* The three steps of CreateOrUpdateServiceAccountWithPSP, one store call at
\* a time: each step is a scan and, unless it returns after the scan, one
\* write of the object computed from what the scan found.
StepKinds == <<"psp", "clusterrole", "clusterrolebinding">>
Returned == Len(StepKinds) + 1

\* A second CRD object, none of whose names is a name of the first.
PeerCRDObject(first) ==
    {[PrefixedName |-> "app2", GetServiceAccountName |-> "sa2", GetPSPName |-> n,
      GetNSName |-> "ns1", Labels |-> l, Annotations |-> <<>>] :
        n \in {"app2", "shared"} \ {first.GetPSPName}, l \in CRDMaps}

buildFor(kind, crd) ==
    IF kind = "psp" THEN BuildPSP(crd)
    ELSE IF kind = "clusterrole" THEN buildClusterRoleForPSP(crd)
    ELSE buildClusterRoleBinding(crd)
updatedFor(kind, new, exist) ==
    IF kind = "psp" THEN updatedPSP(new, exist)
    ELSE IF kind = "clusterrole" THEN updatedClusterRole(new, exist)
    ELSE updatedClusterRoleBinding(new, exist)

InFlight(p) == running[p].step < Returned /\ running[p].phase = "write"
Peer(p) == 3 - p

\* Both calls are entered; from here on no other actor writes.
StartBoth ==
    /\ running = <<>>
    /\ \E peer \in PeerCRDObject(cr) :
          running' = [p \in 1..2 |->
                        [cr |-> IF p = 1 THEN cr ELSE peer, step |-> 1,
                         phase |-> "list", exist |-> NoObject, ops |-> <<>>,
                         overlapped |-> FALSE]]
    /\ last' = [call |-> "concurrent", ops |-> <<>>, err |-> Nil, before |-> store,
                streak |-> 0]
    /\ UNCHANGED <<cr, store, external>>

\* The scan of the current step of call p.  A policy found that is not ours
\* ends the step without a write.
ListStep(p) ==
    /\ running # <<>>
    /\ running[p].step < Returned
    /\ running[p].phase = "list"
    /\ LET kind == StepKinds[running[p].step]
           crd == running[p].cr
           found == ListClusterWideObjects(store, kind, buildFor(kind, crd).name)
       IN running' = [running EXCEPT
            ![p].exist = found,
            ![p].overlapped = @ \/ InFlight(Peer(p)),
            ![p].phase = IF kind = "psp" /\ found.name # "" /\ ~isOurPSP(crd)
                         THEN "list" ELSE "write",
            ![p].step = IF kind = "psp" /\ found.name # "" /\ ~isOurPSP(crd)
                        THEN @ + 1 ELSE @]
    /\ UNCHANGED <<cr, store, last, external>>

\* The create or update of the current step of call p, with the object
\* computed from what its scan found.
WriteStep(p) ==
    /\ running # <<>>
    /\ InFlight(p)
    /\ LET kind == StepKinds[running[p].step]
           new == buildFor(kind, running[p].cr)
           exist == running[p].exist
           verb == IF exist.name = "" THEN "create" ELSE "update"
           obj == IF exist.name = "" THEN new ELSE updatedFor(kind, new, exist)
       IN /\ store' = Put(store, kind, obj)
          /\ running' = [running EXCEPT
               ![p].ops = Append(@, Op(verb, kind, obj.name, TRUE, exist)),
               ![p].overlapped = @ \/ InFlight(Peer(p)),
               ![p].phase = "list",
               ![p].step = @ + 1]
    /\ UNCHANGED <<cr, last, external>>

NextConcurrent ==
    \/ running = <<>> /\ ExternalWrite(PlainMeta)
    \/ StartBoth
    \/ \E p \in 1..2 : ListStep(p)
    \/ \E p \in 1..2 : WriteStep(p)

SpecConcurrent == Init /\ [][NextConcurrent]_vars

(* ---- properties ------------------------------------------------------ *)
EnsureAll == "CreateOrUpdateServiceAccountWithPSP"
EnsureIdentity == "CreateServiceAccountForCRD"
IsCall == last.call \in {EnsureAll, EnsureIdentity}

Range(seq) == {seq[i] : i \in 1..Len(seq)}
Has(seq, x) == x \in Range(seq)
OpKey(op) == IF op.kind = "sa" THEN <<cr.GetNSName, op.name>> ELSE <<"", op.name>>
\* the object now stored where the store call op wrote
Stored(op) == store[op.kind][OpKey(op)]
Updates == {op \in Range(last.ops) : op.op = "update" /\ op.ok}
Creates == {op \in Range(last.ops) : op.op = "create" /\ op.ok}

PSPKey == <<"", cr.GetPSPName>>
RoleKey == <<"", cr.PrefixedName>>
SAKey == <<cr.GetNSName, cr.GetServiceAccountName>>

\* C1: when the configured policy name differs from the qualified name and a
\* policy of the configured name is in the store, a call issues neither a
\* create nor an update for it and leaves it exactly as it was.
C1_OwnershipGuard ==
    (/\ IsCall
     /\ cr.GetPSPName # cr.PrefixedName
     /\ last.before["psp"][PSPKey] # NoObject)
    => /\ store["psp"][PSPKey] = last.before["psp"][PSPKey]
       /\ \A op \in Range(last.ops) : op.kind = "psp" => op.op = "list"

\* A second successive EnsureAll has found the foreign policy, which still
\* differs from the policy this CRD object would build.
C1_Witness ==
    /\ last.call = EnsureAll
    /\ last.streak >= 2
    /\ cr.GetPSPName # cr.PrefixedName
    /\ last.before["psp"][PSPKey] # NoObject
    /\ store["psp"][PSPKey].finalizers = <<OtherFinalizer>>
    /\ store["psp"][PSPKey].labels # cr.Labels
    /\ store["psp"][PSPKey].spec # PSPSpec

\* C2 (as claimed): a policy that does not carry the ownership finalizer
\* is left unchanged by every call, also when its name is both the
\* configured and the qualified name of the CRD object.
C2_UnownedPolicyUntouched ==
    (/\ IsCall
     /\ last.before["psp"][PSPKey] # NoObject
     /\ ~Has(last.before["psp"][PSPKey].finalizers, FinalizerName))
    => store["psp"][PSPKey] = last.before["psp"][PSPKey]

\* C3 (as claimed): a second successive successful EnsureAll leaves policy,
\* role and role binding as the first one stored them.
C3_EnsureAllIdempotent ==
    (last.call = EnsureAll /\ last.streak >= 2) => store = last.before

\* C4: a second successive successful EnsureIdentity leaves the
\* ServiceAccount (labels, annotations, finalizers, secrets) as the first
\* one stored it.
C4_EnsureIdentityIdempotent ==
    (last.call = EnsureIdentity /\ last.streak >= 2) => store = last.before

\* The second call has updated a ServiceAccount that another actor had
\* created with its own label, finalizer and secrets.
C4_Witness ==
    /\ last.call = EnsureIdentity
    /\ last.streak = 2
    /\ \E op \in Updates : op.kind = "sa" /\ op.old = Stored(op)
    /\ store["sa"][SAKey].finalizers = <<OtherFinalizer, FinalizerName>>
    /\ store["sa"][SAKey].spec.secrets # <<>>
    /\ store["sa"][SAKey].annotations # cr.Annotations

Merged == {"sa", "clusterrole", "clusterrolebinding"}
Common(m1, m2) == DOMAIN m1 \cap DOMAIN m2

C6_DesiredAnnotationWins ==
    \A op \in Updates : op.kind \in Merged =>
        \A k \in Common(op.old.annotations, cr.Annotations) :
            Stored(op).annotations[k] = cr.Annotations[k]

Kept(old, supplied, new) ==
    \A k \in DOMAIN old \ DOMAIN supplied : k \in DOMAIN new /\ new[k] = old[k]

\* C7 (as claimed): an update of any of the four kinds keeps every label and
\* every annotation of the existing object whose key the CRD object does not
\* supply.
C7_NoClobbering ==
    \A op \in Updates :
        /\ Kept(op.old.labels, cr.Labels, Stored(op).labels)
        /\ Kept(op.old.annotations, cr.Annotations, Stored(op).annotations)

CarriesDesired(obj) ==
    /\ obj # NoObject
    /\ obj.labels = cr.Labels
    /\ obj.annotations = cr.Annotations
    /\ obj.finalizers = <<FinalizerName>>
Verbs(ops) == [i \in 1..Len(ops) |-> <<ops[i].op, ops[i].kind, ops[i].ok>>]

\* C8: with no policy, role and role binding of the CRD object in the store,
\* a successful EnsureAll issues one create for each of them and no update;
\* with no ServiceAccount, a successful EnsureIdentity issues one create and
\* no update; each created object carries the labels and annotations of the
\* CRD object, the ownership finalizer and the fixed fields.
C8_Creation ==
    /\ (/\ last.call = EnsureAll /\ last.err = Nil
        /\ last.before["psp"][PSPKey] = NoObject
        /\ last.before["clusterrole"][RoleKey] = NoObject
        /\ last.before["clusterrolebinding"][RoleKey] = NoObject)
       => /\ Verbs(last.ops) =
               << <<"list", "psp", TRUE>>, <<"create", "psp", TRUE>>,
                  <<"list", "clusterrole", TRUE>>, <<"create", "clusterrole", TRUE>>,
                  <<"list", "clusterrolebinding", TRUE>>,
                  <<"create", "clusterrolebinding", TRUE>> >>
          /\ CarriesDesired(store["psp"][PSPKey])
          /\ CarriesDesired(store["clusterrole"][RoleKey])
          /\ CarriesDesired(store["clusterrolebinding"][RoleKey])
          /\ store["psp"][PSPKey].spec.allowPrivilegeEscalation = FALSE
          /\ store["psp"][PSPKey].spec.requiredDropCapabilities = <<"ALL">>
          /\ store["psp"][PSPKey].spec.hostNetwork = TRUE
          /\ Len(store["clusterrole"][RoleKey].spec.rules) = 1
          /\ store["clusterrole"][RoleKey].spec.rules[1].resourceNames = <<cr.GetPSPName>>
          /\ store["clusterrolebinding"][RoleKey].spec.roleRef.name = cr.PrefixedName
          /\ store["sa"] = last.before["sa"]
    /\ (/\ last.call = EnsureIdentity /\ last.err = Nil
        /\ last.before["sa"][SAKey] = NoObject)
       => /\ Verbs(last.ops) = << <<"get", "sa", TRUE>>, <<"create", "sa", TRUE>> >>
          /\ CarriesDesired(store["sa"][SAKey])
          /\ store["sa"][SAKey].spec.secrets = <<>>
          /\ \A kind \in Kinds \ {"sa"} : store[kind] = last.before[kind]

\* All four objects were created by one EnsureAll and one EnsureIdentity on
\* a store that no other actor has written.
C8_Witness ==
    /\ external = 0
    /\ last.call = EnsureIdentity
    /\ last.streak = 1
    /\ \E op \in Creates : op.kind = "sa"
    /\ cr.Labels # <<>>
    /\ CarriesDesired(store["sa"][SAKey])
    /\ CarriesDesired(store["psp"][PSPKey])
    /\ CarriesDesired(store["clusterrole"][RoleKey])
    /\ CarriesDesired(store["clusterrolebinding"][RoleKey])

Others(finalizers) == SelectSeq(finalizers, LAMBDA f : f # FinalizerName)
TokenCount(finalizers) ==
    Cardinality({i \in 1..Len(finalizers) : finalizers[i] = FinalizerName})

\* C9: after an update the finalizers are those the object had before, in
\* their order, plus the ownership finalizer, which occurs exactly once.
C9_FinalizerPreservation ==
    \A op \in Updates :
        /\ Others(Stored(op).finalizers) = Others(op.old.finalizers)
        /\ TokenCount(Stored(op).finalizers) = 1
        /\ Len(Stored(op).finalizers) =
              Len(op.old.finalizers) + (IF Has(op.old.finalizers, FinalizerName) THEN 0 ELSE 1)

\* A ClusterRole of another actor, with its own finalizer, was updated in a
\* repeated run.
C9_Witness ==
    /\ last.streak >= 2
    /\ \E op \in Updates :
          /\ op.kind = "clusterrole"
          /\ Stored(op).finalizers = <<OtherFinalizer, FinalizerName>>

Step(kind) ==
    IF kind = "psp" THEN 1 ELSE IF kind = "clusterrole" THEN 2
    ELSE IF kind = "clusterrolebinding" THEN 3 ELSE 0
StepLabel(kind) ==
    IF kind = "psp" THEN "failed check policy"
    ELSE IF kind = "clusterrole" THEN "failed check clusterrole"
    ELSE "failed check clusterrolebinding"

\* C10: EnsureAll issues the store calls of the policy step, then the role
\* step, then the role binding step; a failed store call is the last call
\* issued, the objects of the later steps stay as they were, and the error
\* names the step of the failed call.
C10_StepOrder ==
    last.call = EnsureAll =>
        LET ops == last.ops
            n == Len(ops)
        IN /\ n > 0 /\ ops[1].kind = "psp"
           /\ \A i, j \in 1..n : i < j => Step(ops[i].kind) <= Step(ops[j].kind)
           /\ \A i \in 1..n : Step(ops[i].kind) > 1 =>
                 \E j \in 1..(i - 1) : Step(ops[j].kind) = Step(ops[i].kind) - 1
           /\ \A i \in 1..n : ~ops[i].ok => i = n
           /\ (last.err = Nil) <=> (\A i \in 1..n : ops[i].ok)
           /\ last.err = Nil => Step(ops[n].kind) = 3
           /\ last.err # Nil =>
                 /\ last.err[1] = StepLabel(ops[n].kind)
                 /\ \A kind \in Kinds : Step(kind) > Step(ops[n].kind) =>
                       store[kind] = last.before[kind]

\* The update of an existing role failed after the policy had been created:
\* the role binding step issued no call.
C10_Witness ==
    /\ last.call = EnsureAll
    /\ last.err # Nil
    /\ last.err[1] = "failed check clusterrole"
    /\ \E op \in Creates : op.kind = "psp"
    /\ \E op \in Range(last.ops) : op.kind = "clusterrole" /\ op.op = "update" /\ ~op.ok
    /\ \A op \in Range(last.ops) : op.kind # "clusterrolebinding"
    /\ store["clusterrolebinding"][RoleKey] = NoObject

\* The object a successful write of the last call put into the store.
Written(op) ==
    LET new == IF op.kind = "psp" THEN BuildPSP(cr)
               ELSE IF op.kind = "clusterrole" THEN buildClusterRoleForPSP(cr)
               ELSE IF op.kind = "clusterrolebinding" THEN buildClusterRoleBinding(cr)
               ELSE buildSA(cr)
    IN IF op.op = "create" THEN new
       ELSE IF op.kind = "psp" THEN updatedPSP(new, op.old)
       ELSE IF op.kind = "clusterrole" THEN updatedClusterRole(new, op.old)
       ELSE IF op.kind = "clusterrolebinding" THEN updatedClusterRoleBinding(new, op.old)
       ELSE updatedSA(new, op.old)
AllPresent ==
    /\ store["psp"][PSPKey] # NoObject
    /\ store["clusterrole"][RoleKey] # NoObject
    /\ store["clusterrolebinding"][RoleKey] # NoObject

\* C11, first part: when EnsureAll returns an error, every object that the
\* steps before the failing one created or updated is in the store as written.
C11_WritesStay ==
    (last.call = EnsureAll /\ last.err # Nil) =>
        \A op \in Creates \cup Updates : Stored(op) = Written(op)

\* C11, second part: an EnsureAll that follows a failed one and meets no
\* store failure returns nil and leaves policy, role and role binding present.
C11_RetrySucceeds ==
    (/\ last.call = EnsureAll /\ last.err # Nil
     /\ last'.call = EnsureAll
     /\ \A op \in Range(last'.ops) : op.ok)
    => /\ last'.err = Nil
       /\ store'["psp"][<<"", cr.GetPSPName>>] # NoObject
       /\ store'["clusterrole"][<<"", cr.PrefixedName>>] # NoObject
       /\ store'["clusterrolebinding"][<<"", cr.PrefixedName>>] # NoObject
       /\ \A op \in Creates \cup Updates :
             op.op = "create" => store'[op.kind][OpKey(op)] # NoObject

\* C11: no partial rollback.
C11_NoRollback == []C11_WritesStay /\ [][C11_RetrySucceeds]_vars

\* The role binding step failed after the policy was created and the role of
\* another actor was updated; both are in the store.
C11_Witness ==
    /\ last.call = EnsureAll
    /\ last.err # Nil
    /\ last.err[1] = "failed check clusterrolebinding"
    /\ \E op \in Creates : op.kind = "psp" /\ Stored(op) = BuildPSP(cr)
    /\ \E op \in Updates : op.kind = "clusterrole" /\ Stored(op) # op.old
    /\ store["clusterrolebinding"][RoleKey] = NoObject

Lookups == {"get", "list"}
\* the store calls of the last call, by position
OpAt(i) == last.ops[i]

\* C12: a create is issued only straight after a lookup of the same object
\* that succeeded and found nothing; a lookup that fails is the last store
\* call of the operation, no create or update of that kind is issued, the
\* objects of that kind are as before, and the operation returns an error.
C12_LookupErrors ==
    IsCall =>
      \A i \in 1..Len(last.ops) :
        /\ OpAt(i).op = "create" =>
              /\ i > 1
              /\ OpAt(i - 1).op \in Lookups /\ OpAt(i - 1).ok
              /\ OpAt(i - 1).kind = OpAt(i).kind /\ OpAt(i - 1).name = OpAt(i).name
              /\ last.before[OpAt(i).kind][OpKey(OpAt(i))] = NoObject
        /\ (OpAt(i).op \in Lookups /\ ~OpAt(i).ok) =>
              /\ i = Len(last.ops)
              /\ \A j \in 1..Len(last.ops) :
                    OpAt(j).kind = OpAt(i).kind => OpAt(j).op \in Lookups
              /\ store[OpAt(i).kind] = last.before[OpAt(i).kind]
              /\ last.err # Nil

\* The scan for the role failed while no role of that name was in the store:
\* nothing was created, and the call returned the wrapped error.
C12_Witness ==
    /\ last.call = EnsureAll
    /\ last.err # Nil
    /\ last.err[1] = "failed check clusterrole"
    /\ Len(last.ops) > 0
    /\ OpAt(Len(last.ops)).op = "list" /\ ~OpAt(Len(last.ops)).ok
    /\ store["clusterrole"][RoleKey] = NoObject
    /\ store["psp"][PSPKey] # NoObject

StoredRole == store["clusterrole"][RoleKey]
StoredBinding == store["clusterrolebinding"][RoleKey]

\* C13: after a successful EnsureAll the stored role has the qualified name
\* and exactly one rule, "use" on podsecuritypolicies restricted to the
\* configured policy name; the stored role binding has the same name, refers
\* to that role and has exactly one subject, the ServiceAccount of the
\* identity name in the namespace of the CRD object.
C13_RoleAndBinding ==
    (last.call = EnsureAll /\ last.err = Nil) =>
        /\ StoredRole # NoObject
        /\ StoredRole.name = cr.PrefixedName
        /\ Len(StoredRole.spec.rules) = 1
        /\ StoredRole.spec.rules[1].verbs = <<"use">>
        /\ StoredRole.spec.rules[1].resources = <<"podsecuritypolicies">>
        /\ StoredRole.spec.rules[1].resourceNames = <<cr.GetPSPName>>
        /\ StoredBinding # NoObject
        /\ StoredBinding.name = cr.PrefixedName
        /\ StoredBinding.spec.roleRef.kind = "ClusterRole"
        /\ StoredBinding.spec.roleRef.name = StoredRole.name
        /\ Len(StoredBinding.spec.subjects) = 1
        /\ StoredBinding.spec.subjects[1] =
              [kind |-> "ServiceAccount", name |-> cr.GetServiceAccountName,
               namespace |-> cr.GetNSName]

\* A CRD object that refers to a policy of another name found a role without
\* rules, written by another actor, and replaced its rules.
C13_Witness ==
    /\ last.call = EnsureAll
    /\ last.err = Nil
    /\ cr.GetPSPName # cr.PrefixedName
    /\ \E op \in Updates :
          /\ op.kind = "clusterrole"
          /\ op.old.spec.rules = <<>>
          /\ Stored(op).spec.rules[1].resourceNames = <<cr.GetPSPName>>

\* C14: the ServiceAccount written over an existing one carries exactly the
\* secret references of the existing one, in the same order, so successive
\* calls never add, remove or reorder them.
C14_SecretsKept ==
    /\ \A op \in Updates :
          op.kind = "sa" => Stored(op).spec.secrets = op.old.spec.secrets
    /\ (last.call = EnsureIdentity /\ last.streak >= 1
          /\ last.before["sa"][SAKey] # NoObject)
        => store["sa"][SAKey].spec.secrets = last.before["sa"][SAKey].spec.secrets

\* Successive calls have written over a ServiceAccount of another actor
\* that holds two secret references; both are still there, in their order.
C14_Witness ==
    /\ last.call = EnsureIdentity
    /\ last.streak >= 2
    /\ \E op \in Updates :
          /\ op.kind = "sa"
          /\ Len(op.old.spec.secrets) = 2
          /\ Stored(op).spec.secrets = <<"token-2", "token-1">>

PolicyWrites == {op \in Creates \cup Updates : op.kind = "psp"}
\* the settings every written policy has, apart from the volume allow-list
Posture(spec) ==
    /\ spec.allowPrivilegeEscalation = FALSE
    /\ spec.hostNetwork = TRUE
    /\ spec.runAsUser = "RunAsAny"
    /\ spec.seLinux = "RunAsAny"
    /\ spec.supplementalGroups = "RunAsAny"
    /\ spec.fsGroup = "RunAsAny"
    /\ spec.requiredDropCapabilities = <<"ALL">>
VolumeTypes(spec) == Range(spec.volumes)

\* C15 as stated: every policy the policy step creates or updates has the
\* fixed security posture and an allow-list of exactly six volume types.
C15_SixVolumeTypes ==
    \A op \in PolicyWrites :
        /\ Posture(Stored(op).spec)
        /\ Len(Stored(op).spec.volumes) = 6
        /\ Cardinality(VolumeTypes(Stored(op).spec)) = 6

\* C15, amended: every policy the policy step creates or updates has the
\* fixed security posture and an allow-list of exactly seven volume types:
\* persistentVolumeClaim, secret, emptyDir, configMap, projected,
\* downwardAPI and nfs.
C15_SevenVolumeTypes ==
    \A op \in PolicyWrites :
        /\ Posture(Stored(op).spec)
        /\ Len(Stored(op).spec.volumes) = 7
        /\ VolumeTypes(Stored(op).spec) =
              {"persistentVolumeClaim", "secret", "emptyDir", "configMap",
               "projected", "downwardAPI", "nfs"}

\* A policy of another actor that allowed privilege escalation was updated
\* and now has the fixed posture, nfs among its volume types.
C15_Witness ==
    \E op \in PolicyWrites :
        /\ op.op = "update"
        /\ op.old.spec.allowPrivilegeEscalation = TRUE
        /\ Posture(Stored(op).spec)
        /\ "nfs" \in VolumeTypes(Stored(op).spec)

\* C16: when the policy step finds a policy and the configured policy name
\* is the qualified name, the annotations of the policy it writes have the
\* keys of the CRD object's annotations and of the existing policy's labels,
\* each key of the existing labels with the label's value and each other key
\* with the CRD object's value; the existing annotations play no part.
C16_AnnotationsFromLabels ==
    \A op \in Updates :
        op.kind = "psp" =>
          /\ cr.GetPSPName = cr.PrefixedName
          /\ DOMAIN Stored(op).annotations =
                DOMAIN cr.Annotations \cup DOMAIN op.old.labels
          /\ \A k \in DOMAIN Stored(op).annotations :
                Stored(op).annotations[k] =
                  IF k \in DOMAIN op.old.labels
                  THEN op.old.labels[k] ELSE cr.Annotations[k]

\* The existing policy had label team=a and no annotation, the CRD object
\* has annotation team=b: the updated policy has annotation team=a.
C16_Witness ==
    \E op \in Updates :
        /\ op.kind = "psp"
        /\ "team" \in DOMAIN op.old.labels /\ op.old.labels["team"] = "a"
        /\ op.old.annotations = <<>>
        /\ "team" \in DOMAIN cr.Annotations /\ cr.Annotations["team"] = "b"
        /\ Stored(op).annotations["team"] = "a"

WriteVerbs == {"create", "update"}
\* the writes the last call issued for objects of the kind, by position
WritesOf(kind) ==
    {i \in 1..Len(last.ops) : OpAt(i).kind = kind /\ OpAt(i).op \in WriteVerbs}
KeyOf(kind) ==
    IF kind = "psp" THEN PSPKey ELSE IF kind = "sa" THEN SAKey ELSE RoleKey
\* the kinds of the ensure operations the last call ran
KindsOf(call) ==
    IF call = EnsureAll THEN {"psp", "clusterrole", "clusterrolebinding"} ELSE {"sa"}
\* the one case without a write: a policy found that is not ours
Unclaimed(kind) ==
    /\ kind = "psp"
    /\ cr.GetPSPName # cr.PrefixedName
    /\ last.before["psp"][PSPKey] # NoObject

\* C17: in a successful call every ensure operation issues exactly one write,
\* a create when no object of the name was stored and an update when one
\* was, also when the update changes nothing; only the policy step that finds
\* a policy of a name other than the qualified name issues no write.  The
\* role and role binding steps always write.
C17_OneWrite ==
    (IsCall /\ last.err = Nil) =>
      /\ \A kind \in Kinds \ KindsOf(last.call) : WritesOf(kind) = {}
      /\ \A kind \in KindsOf(last.call) :
            IF Unclaimed(kind)
            THEN WritesOf(kind) = {}
            ELSE /\ Cardinality(WritesOf(kind)) = 1
                 /\ \A i \in WritesOf(kind) :
                       /\ OpAt(i).ok
                       /\ OpAt(i).op =
                            IF last.before[kind][KeyOf(kind)] = NoObject
                            THEN "create" ELSE "update"

\* A later call of a CRD object that refers to a policy of another name:
\* the policy found got no write, the role and the role binding were updated
\* although the update changed nothing.
C17_Witness ==
    /\ last.call = EnsureAll
    /\ last.err = Nil
    /\ Unclaimed("psp")
    /\ store = last.before
    /\ \E op \in Updates : op.kind = "clusterrole" /\ Stored(op) = op.old
    /\ \E op \in Updates : op.kind = "clusterrolebinding" /\ Stored(op) = op.old

StoredPolicy == store["psp"][PSPKey]

\* C18: when no policy of the configured policy name is stored and the
\* policy step meets no store failure, the policy is created, whether or not
\* the configured name is the qualified name; the created policy has the
\* configured name, the labels and annotations of the CRD object and the
\* ownership finalizer.
C18_CreatesForeignPolicy ==
    (/\ last.call = EnsureAll
     /\ last.before["psp"][PSPKey] = NoObject
     /\ \A op \in Range(last.ops) : op.kind = "psp" => op.ok)
    => /\ \E op \in Creates : op.kind = "psp" /\ op.name = cr.GetPSPName
       /\ WritesOf("psp") # {} /\ \A i \in WritesOf("psp") : OpAt(i).op = "create"
       /\ StoredPolicy # NoObject
       /\ StoredPolicy.name = cr.GetPSPName
       /\ StoredPolicy.labels = cr.Labels
       /\ StoredPolicy.annotations = cr.Annotations
       /\ Has(StoredPolicy.finalizers, FinalizerName)
       /\ StoredPolicy.spec = PSPSpec

\* A CRD object whose configured policy name is not its qualified name has
\* created the policy of that name with its own labels and annotations.
C18_Witness ==
    /\ last.call = EnsureAll
    /\ cr.GetPSPName # cr.PrefixedName
    /\ cr.Labels # <<>> /\ cr.Annotations # <<>>
    /\ last.before["psp"][PSPKey] = NoObject
    /\ \E op \in Creates : op.kind = "psp"
    /\ CarriesDesired(StoredPolicy)

\* C19: the third and every later call in a row of successful calls of the
\* same entry point, with no other writer in between, leaves the store as it
\* found it.  The two entry points write objects of different kinds, so calls
\* of the other entry point in between do not disturb the fixed point.
C19_Convergence ==
    /\ (IsCall /\ last.streak >= 3) => store = last.before
    /\ last.call = EnsureAll => store["sa"] = last.before["sa"]
    /\ last.call = EnsureIdentity =>
          \A kind \in Kinds \ {"sa"} : store[kind] = last.before[kind]

\* The third EnsureAll in a row changed nothing; the second one had still
\* changed the policy, whose annotations are not those of the CRD object.
C19_Witness ==
    /\ last.call = EnsureAll
    /\ last.streak >= 3
    /\ store = last.before
    /\ cr.GetPSPName = cr.PrefixedName
    /\ StoredPolicy # NoObject
    /\ StoredPolicy.annotations # cr.Annotations
    /\ \E op \in Updates : op.kind = "psp"

NoFailure == [i \in 1..3 |-> "none"]
\* the store after the call for a and then the call for b, one after the other
OneAfterTheOther(st, a, b) ==
    CreateOrUpdateServiceAccountWithPSP(
        CreateOrUpdateServiceAccountWithPSP(st, a, NoFailure).store, b, NoFailure).store
BothReturned ==
    /\ running # <<>>
    /\ \A p \in 1..2 : running[p].step = Returned
\* the name under which the CRD object keeps its object of the kind
NameIn(kind, crd) == IF kind = "psp" THEN crd.GetPSPName ELSE crd.PrefixedName

\* C20: for two CRD objects with pairwise different qualified names, policy
\* names and identity names, whatever the order of the store calls of their
\* two calls, when both have returned the store is the one that running the
\* two calls one after the other gives, in either order; and no call ever
\* writes an object under a name of the other CRD object.
C20_Independence ==
    /\ BothReturned =>
          /\ store = OneAfterTheOther(last.before, running[1].cr, running[2].cr)
          /\ store = OneAfterTheOther(last.before, running[2].cr, running[1].cr)
    /\ running # <<>> =>
          \A p \in 1..2 : \A op \in Range(running[p].ops) :
              /\ op.name = NameIn(op.kind, running[p].cr)
              /\ op.name # NameIn(op.kind, running[Peer(p)].cr)

\* Both calls have returned after store calls that fell between a scan and
\* the write of the other call; one updated its policy, the other found the
\* shared policy and wrote its role and role binding.
C20_Witness ==
    /\ BothReturned
    /\ \A p \in 1..2 : running[p].overlapped
    /\ running[2].cr.GetPSPName = "shared"
    /\ last.before["psp"][<<"", "shared">>] # NoObject
    /\ Len(running[1].ops) = 3 /\ Len(running[2].ops) = 2
    /\ store # last.before

====
